---- MODULE Spec2Model ----
(***************************************************************************)
(* Model of the GoitomServices server (src/goitomapp/server.ts): the two   *)
(* SQLite tables, the asynchronous POST /api/records handler with its call *)
(* to the vision service, the listing and statistics queries, and the user *)
(* routes; and of the state of the client's App component                  *)
(* (src/goitomapp/src/App.tsx) with its pending callbacks.                 *)
(*                                                                         *)
(* Strings that the code inspects (the estimator's reply, the image data   *)
(* URI) are sequences of one-character strings.  A timestamp is the text   *)
(* CURRENT_TIMESTAMP produces, modelled as <<day, second-of-day>> and      *)
(* compared component by component as SQLite compares the text.  A REAL    *)
(* column holds a binary floating-point number: the model keeps the        *)
(* round-to-nearest-even rule and scales the significand to MantBits bits. *)
(***************************************************************************)
EXTENDS Integers, Sequences, FiniteSets, TLC

\* ------------------------------------------------------------------ bounds
\* how many records the handlers may add to the store they started with
MaxNew == 2
\* how many clock ticks the server lives through
MaxTicks == 1
\* how many users may sign up
MaxSignups == 1
\* clock ticks per calendar day
TicksPerDay == 2
\* significand width of the REAL column, scaled down from binary64's 53
MantBits == 12
\* how many 2-second timers of the client may be pending at once
MaxTimers == 1
\* longest reply of the vision service, in characters, among the replies
\* enumerated over ReplyAlphabet
MaxReplyLen == 3

\* ------------------------------------------------------- JavaScript values
\* a number, undefined or null, as a request body or a table cell carries it
Num(n) == [t |-> "number", v |-> n]
Undefined == [t |-> "undefined", v |-> 0]
Null == [t |-> "null", v |-> 0]
\* a JSON string that is no number ("abc") and the JSON value true.  In a
\* cell SUM counts such a text as 0 and skips NULL, hence v = 0 for both
\* (a group of NULLs alone sums to NULL, which the model shows as 0).
Text == [t |-> "string", v |-> 0]
True == [t |-> "boolean", v |-> 1]

\* a string is a sequence of characters; a string that is not there
NoString == <<"undefined">>

\* ------------------------------------------------------------------ helpers
RECURSIVE Pow2(_)
Pow2(n) == IF n = 0 THEN 1 ELSE 2 * Pow2(n - 1)

SeqRange(s) == {s[i] : i \in 1..Len(s)}

Abs(x) == IF x < 0 THEN 0 - x ELSE x

\* ---------------------------------------------------------- REAL arithmetic
\* the spacing of representable numbers around x
RECURSIVE Ulp(_, _)
Ulp(x, u) == IF x \div u < Pow2(MantBits) THEN u ELSE Ulp(x, 2 * u)

\* x rounded to MantBits significant bits, ties to even
RoundReal(x) ==
    LET a == Abs(x)
        u == Ulp(a, 1)
        q == a \div u
        r == a % u
        up == (2 * r > u) \/ (2 * r = u /\ q % 2 = 1)
        m == (IF up THEN q + 1 ELSE q) * u
    IN  IF x < 0 THEN 0 - m ELSE m

RealAdd(a, b) == RoundReal(a + b)

\* -------------------------------------------------- the estimator's reply
Digits == {"0", "1", "2", "3", "4", "5", "6", "7", "8", "9"}

DigitVal(c) ==
    CASE c = "0" -> 0 [] c = "1" -> 1 [] c = "2" -> 2 [] c = "3" -> 3
      [] c = "4" -> 4 [] c = "5" -> 5 [] c = "6" -> 6 [] c = "7" -> 7
      [] c = "8" -> 8 [] c = "9" -> 9

WhiteSpace == {" ", "\n"}

RECURSIVE TrimStart(_)
TrimStart(s) ==
    IF s # <<>> /\ Head(s) \in WhiteSpace THEN TrimStart(Tail(s)) ELSE s

RECURSIVE TrimEnd(_)
TrimEnd(s) ==
    IF s # <<>> /\ s[Len(s)] \in WhiteSpace
    THEN TrimEnd(SubSeq(s, 1, Len(s) - 1)) ELSE s

\* String.prototype.trim
Trim(s) == TrimEnd(TrimStart(s))

\* parseInt of the text as it is: an optional sign, then the leading digits
RECURSIVE LeadingDigits(_)
LeadingDigits(s) ==
    IF s = <<>> \/ Head(s) \notin Digits THEN <<>>
    ELSE <<Head(s)>> \o LeadingDigits(Tail(s))

RECURSIVE DropFirstNonDigit(_)
DropFirstNonDigit(s) ==
    IF s = <<>> THEN <<>>
    ELSE IF Head(s) \notin Digits THEN Tail(s)
    ELSE <<Head(s)>> \o DropFirstNonDigit(Tail(s))

\* the replace without its g flag, which drops the first non-digit only, and
\* what parseInt then reads of the result
ReplaceFirstNonDigit(s) == LeadingDigits(DropFirstNonDigit(s))

\* countText.replace(/[^0-9]/g, '')
RECURSIVE ReplaceNonDigits(_)
ReplaceNonDigits(s) ==
    IF s = <<>> THEN <<>>
    ELSE IF Head(s) \in Digits THEN <<Head(s)>> \o ReplaceNonDigits(Tail(s))
    ELSE ReplaceNonDigits(Tail(s))

NaN == 0 - 1

\* parseInt of a string of digits; NaN for the empty string
RECURSIVE ParseDigits(_, _)
ParseDigits(s, acc) ==
    IF s = <<>> THEN acc ELSE ParseDigits(Tail(s), 10 * acc + DigitVal(Head(s)))

ParseInt(s) == IF s = <<>> THEN NaN ELSE ParseDigits(s, 0)

\* const countText = response.text?.trim() || "0"
CountText(text) ==
    IF text = NoString THEN <<"0">>
    ELSE IF Trim(text) = <<>> THEN <<"0">> ELSE Trim(text)

\* BreadCount without the replace: parseInt(countText) || 0
BreadCountNoReplace(text) ==
    LET t == CountText(text)
        neg == t # <<>> /\ Head(t) = "-"
        n == ParseInt(LeadingDigits(IF neg THEN Tail(t) ELSE t))
    IN  IF n = NaN \/ n = 0 THEN 0 ELSE IF neg THEN 0 - n ELSE n

\* const breadCount = parseInt(countText.replace(/[^0-9]/g, '')) || 0
BreadCount(text) ==
    LET n == ParseInt(ReplaceNonDigits(CountText(text)))
    IN  IF n = NaN \/ n = 0 THEN 0 ELSE n

\* ------------------------------------------------------------ the image
\* imageBase64.split(',')[1]: the text between the first and the second
\* comma, undefined when there is no comma
RECURSIVE UpToComma(_)
UpToComma(s) ==
    IF s = <<>> \/ Head(s) = "," THEN <<>> ELSE <<Head(s)>> \o UpToComma(Tail(s))

RECURSIVE AfterComma(_)
AfterComma(s) ==
    IF s = <<>> THEN NoString
    ELSE IF Head(s) = "," THEN UpToComma(Tail(s))
    ELSE AfterComma(Tail(s))

InlineData(imageBase64) == AfterComma(imageBase64)

\* ----------------------------------------------------------- timestamps
\* CURRENT_TIMESTAMP at clock reading t
CurrentTimestamp(t) == <<t \div TicksPerDay, t % TicksPerDay>>

\* date(timestamp)
DateOf(ts) == ts[1]

\* text comparison of two timestamps
TsLess(a, b) == a[1] < b[1] \/ (a[1] = b[1] /\ a[2] < b[2])

\* ------------------------------------------------------------ the tables
VARIABLES
    apiKey,       \* process.env.GEMINI_API_KEY is set
    foreignKeys,  \* the SQLite build enforces FOREIGN KEY clauses
    users,        \* table users: id -> row
    userSeq,      \* AUTOINCREMENT counter of users
    records,      \* table records, in rowid order
    recordSeq,    \* AUTOINCREMENT counter of records
    atStart,      \* how many records the database file held at startup
    now,          \* the server clock
    calls,        \* POST /api/records handlers suspended in await
    res,          \* the response sent last
    app           \* the client: state of the App component, pending callbacks

vars == <<apiKey, foreignKeys, users, userSeq, records, recordSeq, atStart,
          now, calls, res, app>>

\* employee names in the order the text comparison puts them
NameOrder == <<"Administrator", "Ana", "Bia">>

NameRank(name) == CHOOSE i \in 1..Len(NameOrder) : NameOrder[i] = name

\* ---------------------------------------------------------------- ORDER BY
\* SQLite's sorter is stable: rows with equal keys stay in scan order

\* InsertByTimestampDesc for ORDER BY timestamp without DESC
RECURSIVE InsertByTimestampAsc(_, _)
InsertByTimestampAsc(x, sorted) ==
    IF sorted = <<>> THEN <<x>>
    ELSE IF TsLess(x.timestamp, Head(sorted).timestamp) THEN <<x>> \o sorted
    ELSE <<Head(sorted)>> \o InsertByTimestampAsc(x, Tail(sorted))

\* insert row x behind every row that does not sort after it (newest first)
RECURSIVE InsertByTimestampDesc(_, _)
InsertByTimestampDesc(x, sorted) ==
    IF sorted = <<>> THEN <<x>>
    ELSE IF TsLess(Head(sorted).timestamp, x.timestamp) THEN <<x>> \o sorted
    ELSE <<Head(sorted)>> \o InsertByTimestampDesc(x, Tail(sorted))

RECURSIVE SortByTimestampDesc(_, _)
SortByTimestampDesc(rows, sorted) ==
    IF rows = <<>> THEN sorted
    ELSE SortByTimestampDesc(Tail(rows), InsertByTimestampDesc(Head(rows), sorted))

\* ORDER BY timestamp DESC
OrderByTimestampDesc(rows) == SortByTimestampDesc(rows, <<>>)

\* the same for rows that carry an integer sort key k, ascending
RECURSIVE InsertByKey(_, _)
InsertByKey(x, sorted) ==
    IF sorted = <<>> THEN <<x>>
    ELSE IF x.k < Head(sorted).k THEN <<x>> \o sorted
    ELSE <<Head(sorted)>> \o InsertByKey(x, Tail(sorted))

RECURSIVE SortByKey(_, _)
SortByKey(rows, sorted) ==
    IF rows = <<>> THEN sorted
    ELSE SortByKey(Tail(rows), InsertByKey(Head(rows), sorted))

\* --------------------------------------------------------- GET /api/records
\* the comparison user_id = ? (NULL equals nothing)
UserIdEquals(cell, userId) == cell.t = "number" /\ userId.t = "number" /\ cell.v = userId.v

SelectForUser(rows, userId) ==
    OrderByTimestampDesc(SelectSeq(rows, LAMBDA r : UserIdEquals(r.user_id, userId)))

SelectAll(rows) == OrderByTimestampDesc(rows)

\* GetRecords answering every caller with the privileged listing
GetRecordsAnyRole(rows, userId, role) == SelectAll(rows)

GetRecords(rows, userId, role) ==
    IF role = "admin" THEN SelectAll(rows) ELSE SelectForUser(rows, userId)

\* ----------------------------------------------------------- GET /api/stats
\* Aggregate with SUM(bread_count) written for both totals
RECURSIVE AggregateBreadTwice(_, _)
AggregateBreadTwice(sorted, out) ==
    IF sorted = <<>> THEN out
    ELSE LET r == Head(sorted)
             n == Len(out)
         IN  IF n > 0 /\ out[n].g = r.g
             THEN AggregateBreadTwice(Tail(sorted),
                      [out EXCEPT ![n].total = @ + r.bread_count,
                                  ![n].total_cash = @ + r.bread_count])
             ELSE AggregateBreadTwice(Tail(sorted),
                      Append(out, [g |-> r.g, total |-> r.bread_count,
                                   total_cash |-> r.bread_count]))

\* SUM over consecutive rows of one group: one output row per run of equal
\* group keys g, accumulating in the order the rows arrive
RECURSIVE Aggregate(_, _)
Aggregate(sorted, out) ==
    IF sorted = <<>> THEN out
    ELSE LET r == Head(sorted)
             n == Len(out)
         IN  IF n > 0 /\ out[n].g = r.g
             THEN Aggregate(Tail(sorted),
                      [out EXCEPT ![n].total = @ + r.bread_count,
                                  ![n].total_cash = RealAdd(@, r.cash_amount)])
             ELSE Aggregate(Tail(sorted),
                      Append(out, [g |-> r.g, total |-> r.bread_count,
                                   total_cash |-> RealAdd(0, r.cash_amount)]))

\* GROUP BY: sort on the group key, then aggregate the runs
GroupBy(keyed) == Aggregate(SortByKey(keyed, <<>>), <<>>)

\* LIMIT 7
StatsDays == 7

\* Limit with the LIMIT clause left out
LimitNone(rows, n) == rows

Limit(rows, n) == IF Len(rows) <= n THEN rows ELSE SubSeq(rows, 1, n)

\* const totalByDay = SELECT date(timestamp) as date, SUM.. GROUP BY date(timestamp)
\*                    ORDER BY date DESC LIMIT 7
TotalByDay(rows) ==
    LET keyed == [i \in 1..Len(rows) |->
                    [k |-> DateOf(rows[i].timestamp), g |-> DateOf(rows[i].timestamp),
                     bread_count |-> rows[i].bread_count,
                     cash_amount |-> rows[i].cash_amount.v]]
        groups == GroupBy(keyed)
        byDate == SortByKey([i \in 1..Len(groups) |->
                                [k |-> 0 - groups[i].g, date |-> groups[i].g,
                                 total |-> groups[i].total,
                                 total_cash |-> groups[i].total_cash]], <<>>)
    IN  [i \in 1..Len(Limit(byDate, StatsDays)) |->
            [date |-> byDate[i].date, total |-> byDate[i].total,
             total_cash |-> byDate[i].total_cash]]

\* const totalByEmployee = SELECT employee_name, SUM.. GROUP BY employee_name
\*                         ORDER BY total DESC
TotalByEmployee(rows) ==
    LET keyed == [i \in 1..Len(rows) |->
                    [k |-> NameRank(rows[i].employee_name), g |-> rows[i].employee_name,
                     bread_count |-> rows[i].bread_count,
                     cash_amount |-> rows[i].cash_amount.v]]
        groups == GroupBy(keyed)
        byTotal == SortByKey([i \in 1..Len(groups) |->
                                [k |-> 0 - groups[i].total, employee_name |-> groups[i].g,
                                 total |-> groups[i].total,
                                 total_cash |-> groups[i].total_cash]], <<>>)
    IN  [i \in 1..Len(byTotal) |->
            [employee_name |-> byTotal[i].employee_name, total |-> byTotal[i].total,
             total_cash |-> byTotal[i].total_cash]]

\* ------------------------------------------------------------ input sets
ImageA == <<"d", ",", "A">>
ImageB == <<"d", ",", "B">>

\* request bodies of POST /api/records
BodyAnaCash == [userId |-> Num(2), employeeName |-> "Ana", providerName |-> "Rui",
                imageBase64 |-> ImageA, cashAmount |-> Num(1500)]
BodyAnaNoCash == [userId |-> Num(2), employeeName |-> "Ana", providerName |-> "Joao",
                  imageBase64 |-> ImageB, cashAmount |-> Undefined]
BodyNoImage == [userId |-> Num(2), employeeName |-> "Ana", providerName |-> "Rui",
                imageBase64 |-> NoString, cashAmount |-> Num(1500)]
BodyNoUser == [userId |-> Undefined, employeeName |-> "Ana", providerName |-> "Rui",
               imageBase64 |-> ImageA, cashAmount |-> Num(1500)]

Bodies == {BodyAnaCash, BodyAnaNoCash, BodyNoImage, BodyNoUser}

\* texts the vision service may answer with (NoString: a response without text)
ReplyLoaves == <<"3", " ", "l", "o", "a", "v", "e", "s">>
ReplyEmpty == <<>>
ReplyNoBread == <<"n", "o", " ", "b", "r", "e", "a", "d", " ", "h", "e", "r", "e">>
ReplyMinus == <<"-", "3", "\n">>
ReplyBetween == <<"b", "e", "t", "w", "e", "e", "n", " ", "4", " ", "a", "n", "d", " ", "5">>

Replies == {NoString, ReplyEmpty, ReplyNoBread, ReplyMinus, ReplyLoaves, ReplyBetween}

\* concurrent requests the model follows
Calls == {"c1", "c2"}

\* a handler that is not running; sent counts the generateContent requests a
\* running handler has sent
Idle == [pc |-> "idle", body |-> BodyNoImage, data |-> NoString, sent |-> 0]

\* ------------------------------------------------------------ the database
\* the database file survives restarts: the server may start on an empty
\* store or on one that earlier runs have filled
AdminRow == [email |-> "admin@goitom.com", password |-> "admin123",
             role |-> "admin", name |-> "Administrator"]

StoredUsers ==
    (1 :> AdminRow)
    @@ (2 :> [email |-> "ana@goitom.com", password |-> "admin123",
              role |-> "employee", name |-> "Ana"])
    @@ (3 :> [email |-> "bia@goitom.com", password |-> "admin123",
              role |-> "employee", name |-> "Bia"])

Row(id, userId, name, count, cash, image, day, tick) ==
    [id |-> id, user_id |-> Num(userId), employee_name |-> name,
     provider_name |-> "Rui", bread_count |-> count,
     cash_amount |-> Num(cash), image_url |-> image,
     timestamp |-> CurrentTimestamp(day * TicksPerDay + tick)]

\* the day the model's clock starts in, at the last tick of that day: the
\* stored records fill the days up to it, StatsDays dates in all
StartDay == StatsDays - 1

StartClock == StartDay * TicksPerDay + TicksPerDay - 1

\* a cash amount so large that the REAL column's spacing around it is wider
\* than twice BodyAnaCash's amount and narrower than four times
BigCash == Pow2(MantBits) * 2048

StoredRecords ==
    << Row(1, 2, "Ana", 3, BigCash, ImageA, 0, 0),
       Row(2, 3, "Bia", 45, 0, ImageB, 1, 0),
       Row(3, 2, "Ana", 0, 1, ImageA, 2, 0),
       Row(4, 3, "Bia", 3, 1500, ImageB, 3, 0),
       Row(5, 2, "Bia", 3, 20, ImageA, 4, 0),
       Row(6, 3, "Ana", 7, 0, ImageB, 5, 0),
       Row(7, 3, "Bia", 7, 20, ImageB, StartDay, 0),
       Row(8, 2, "Ana", 3, 1500, ImageA, StartDay, TicksPerDay - 1) >>

\* ------------------------------------------------------------ the client
\* useState(null): nobody is logged in
NoUser == 0

\* the App component as it mounts: the useState initial values, and no fetch,
\* permission request or timer pending
AppStart ==
    [view |-> "login", user |-> NoUser, loading |-> FALSE, capturedImage |-> FALSE,
     login |-> "idle", signup |-> "idle", camera |-> "idle", publish |-> "idle",
     profile |-> NoUser, timers |-> 0]

Start(stores, builds) ==
    /\ app = AppStart
    /\ apiKey \in BOOLEAN
    /\ foreignKeys \in builds
    /\ users = StoredUsers
    /\ userSeq = Cardinality(DOMAIN StoredUsers)
    /\ records \in stores
    /\ recordSeq = Len(records)
    /\ atStart = Len(records)
    /\ now = StartClock
    /\ calls = [c \in Calls |-> Idle]
    /\ res = [op |-> "none", status |-> 0]

\* ------------------------------------------------------ POST /api/records
ConfigError == "Gemini API key not configured"
ProcessError == "Failed to process image"

\* the catch block and the configuration check answer without a reply of
\* the vision service in scope
Failure(message) ==
    [op |-> "POST /api/records", status |-> 500, error |-> message,
     id |-> 0, breadCount |-> 0, response |-> NoString]

\* PostRecords without the check of the key
PostRecordsNoKeyCheck(c, body) ==
    /\ calls[c].pc = "idle"
    /\ IF body.imageBase64 = NoString
       THEN /\ res' = Failure(ProcessError)
            /\ UNCHANGED calls
       ELSE /\ calls' = [calls EXCEPT ![c] =
                            [pc |-> "await", body |-> body,
                             data |-> InlineData(body.imageBase64), sent |-> 1]]
            /\ UNCHANGED res
    /\ UNCHANGED <<app, apiKey, foreignKeys, users, userSeq, records, recordSeq, atStart, now>>

\* lines 80-105: up to the await.  Without the key the handler answers at
\* once; without an image the split throws inside the try block; otherwise
\* the request to the vision service leaves and the handler suspends.
PostRecords(c, body) ==
    /\ calls[c].pc = "idle"
    /\ IF ~apiKey
       THEN /\ res' = Failure(ConfigError)
            /\ UNCHANGED calls
       ELSE IF body.imageBase64 = NoString
       THEN /\ res' = Failure(ProcessError)
            /\ UNCHANGED calls
       ELSE /\ calls' = [calls EXCEPT ![c] =
                            [pc |-> "await", body |-> body,
                             data |-> InlineData(body.imageBase64), sent |-> 1]]
            /\ UNCHANGED res
    /\ UNCHANGED <<app, apiKey, foreignKeys, users, userSeq, records, recordSeq, atStart, now>>

\* better-sqlite3 binds numbers, strings and null, and throws on undefined
\* and on booleans
Bindable(x) == x.t \in {"number", "string", "null"}

\* const { ..., cashAmount = 0 } = req.body
CashAmount(body) == IF body.cashAmount.t = "undefined" THEN Num(0) ELSE body.cashAmount

BindsOk(body) == Bindable(body.userId) /\ Bindable(CashAmount(body))

\* FOREIGN KEY(user_id) REFERENCES users(id)
ForeignKeyOk(userId) ==
    foreignKeys => (userId.t = "null" \/ userId.v \in DOMAIN users)

\* the cell a REAL column keeps for a bound value: a number rounded to the
\* format, a text that is no number as text, NULL as NULL
RealCell(x) == IF x.t = "number" THEN Num(RoundReal(x.v)) ELSE x

\* NewRecord answering with an id one off the row's
NewRecordStaleId(body, breadCount) ==
    [id |-> recordSeq, user_id |-> body.userId,
     employee_name |-> body.employeeName, provider_name |-> body.providerName,
     bread_count |-> breadCount, cash_amount |-> RealCell(CashAmount(body)),
     image_url |-> body.imageBase64, timestamp |-> CurrentTimestamp(now)]

\* NewRecord on a table whose timestamp column defaults to CURRENT_DATE
NewRecordDateOnly(body, breadCount) ==
    [id |-> recordSeq + 1, user_id |-> body.userId,
     employee_name |-> body.employeeName, provider_name |-> body.providerName,
     bread_count |-> breadCount, cash_amount |-> RealCell(CashAmount(body)),
     image_url |-> body.imageBase64, timestamp |-> <<DateOf(CurrentTimestamp(now)), 0>>]

\* the row INSERT INTO records writes
NewRecord(body, breadCount) ==
    [id |-> recordSeq + 1, user_id |-> body.userId,
     employee_name |-> body.employeeName, provider_name |-> body.providerName,
     bread_count |-> breadCount, cash_amount |-> RealCell(CashAmount(body)),
     image_url |-> body.imageBase64, timestamp |-> CurrentTimestamp(now)]

\* AiResolve for a handler that keeps the request body in a variable of the
\* module, which a request arriving during the await overwrites
AiResolveSharedBody(c, text) ==
    /\ calls[c].pc = "await"
    /\ calls' = [calls EXCEPT ![c] = Idle]
    /\ LET other == {d \in Calls \ {c} : calls[d].pc = "await"}
           body == IF other = {} THEN calls[c].body
                   ELSE calls[CHOOSE d \in other : TRUE].body
           breadCount == BreadCount(text)
       IN  IF BindsOk(body) /\ ForeignKeyOk(body.userId)
           THEN /\ recordSeq < atStart + MaxNew
                /\ records' = Append(records, NewRecord(body, breadCount))
                /\ recordSeq' = recordSeq + 1
                /\ res' = [op |-> "POST /api/records", status |-> 200,
                           error |-> "", id |-> recordSeq + 1,
                           breadCount |-> breadCount, response |-> text]
           ELSE /\ res' = Failure(ProcessError)
                /\ UNCHANGED <<records, recordSeq>>
    /\ UNCHANGED <<app, apiKey, foreignKeys, users, userSeq, atStart, now>>

\* lines 107-116: the vision service answered with text; the handler
\* resumes, extracts the count, inserts the row and answers {id, breadCount}
\* (res keeps, next to that answer, the reply in scope when it was sent)
AiResolve(c, text) ==
    /\ calls[c].pc = "await"
    /\ calls' = [calls EXCEPT ![c] = Idle]
    /\ LET body == calls[c].body
           breadCount == BreadCount(text)
       IN  IF BindsOk(body) /\ ForeignKeyOk(body.userId)
           THEN /\ recordSeq < atStart + MaxNew
                /\ records' = Append(records, NewRecord(body, breadCount))
                /\ recordSeq' = recordSeq + 1
                /\ res' = [op |-> "POST /api/records", status |-> 200,
                           error |-> "", id |-> recordSeq + 1,
                           breadCount |-> breadCount, response |-> text]
           ELSE /\ res' = Failure(ProcessError)
                /\ UNCHANGED <<records, recordSeq>>
    /\ UNCHANGED <<app, apiKey, foreignKeys, users, userSeq, atStart, now>>

\* AiReject for a handler that had stored the row before it called the service
AiRejectAfterInsert(c) ==
    /\ calls[c].pc = "await"
    /\ calls' = [calls EXCEPT ![c] = Idle]
    /\ records' = Append(records, [id |-> recordSeq + 1, user_id |-> calls[c].body.userId,
                      employee_name |-> calls[c].body.employeeName,
                      provider_name |-> calls[c].body.providerName, bread_count |-> 0,
                      cash_amount |-> RealCell(CashAmount(calls[c].body)),
                      image_url |-> calls[c].body.imageBase64,
                      timestamp |-> CurrentTimestamp(now)])
    /\ recordSeq' = recordSeq + 1
    /\ res' = Failure(ProcessError)
    /\ UNCHANGED <<app, apiKey, foreignKeys, users, userSeq, atStart, now>>

\* AiReject for a handler that sends the request once more before it gives up
AiRejectRetry(c) ==
    /\ calls[c].pc = "await"
    /\ IF calls[c].sent = 1
       THEN /\ calls' = [calls EXCEPT ![c].sent = 2]
            /\ UNCHANGED res
       ELSE /\ calls' = [calls EXCEPT ![c] = Idle]
            /\ res' = Failure(ProcessError)
    /\ UNCHANGED <<app, apiKey, foreignKeys, users, userSeq, records, recordSeq, atStart, now>>

\* lines 117-120: the call to the vision service failed
AiReject(c) ==
    /\ calls[c].pc = "await"
    /\ calls' = [calls EXCEPT ![c] = Idle]
    /\ res' = Failure(ProcessError)
    /\ UNCHANGED <<app, apiKey, foreignKeys, users, userSeq, records, recordSeq, atStart, now>>

\* ------------------------------------------------------------ the reads
GetRecordsRoute(userId, role) ==
    /\ res' = [op |-> "GET /api/records", status |-> 200,
               rows |-> GetRecords(records, userId, role)]
    /\ UNCHANGED <<app, apiKey, foreignKeys, users, userSeq, records, recordSeq, atStart, now, calls>>

\* the rows the submissions in flight would give, had each been stored with
\* count 0 before its request to the vision service went out
PendingRows ==
    (IF calls["c1"].pc = "await" THEN <<NewRecord(calls["c1"].body, 0)>> ELSE <<>>)
        \o (IF calls["c2"].pc = "await" THEN <<NewRecord(calls["c2"].body, 0)>> ELSE <<>>)

\* GetStats over a table that holds those rows already
GetStatsWithPending ==
    /\ res' = [op |-> "GET /api/stats", status |-> 200,
               totalByDay |-> TotalByDay(records \o PendingRows),
               totalByEmployee |-> TotalByEmployee(records \o PendingRows)]
    /\ UNCHANGED <<app, apiKey, foreignKeys, users, userSeq, records, recordSeq, atStart, now, calls>>

GetStats ==
    /\ res' = [op |-> "GET /api/stats", status |-> 200,
               totalByDay |-> TotalByDay(records),
               totalByEmployee |-> TotalByEmployee(records)]
    /\ UNCHANGED <<app, apiKey, foreignKeys, users, userSeq, records, recordSeq, atStart, now, calls>>

Login(email, password) ==
    /\ IF \E id \in DOMAIN users : users[id].email = email /\ users[id].password = password
       THEN LET id == CHOOSE i \in DOMAIN users :
                         /\ users[i].email = email /\ users[i].password = password
                         /\ \A j \in DOMAIN users :
                               users[j].email = email /\ users[j].password = password => i <= j
            IN  res' = [op |-> "POST /api/login", status |-> 200, id |-> id,
                        name |-> users[id].name]
       ELSE res' = [op |-> "POST /api/login", status |-> 401, id |-> 0, name |-> ""]
    /\ UNCHANGED <<app, apiKey, foreignKeys, users, userSeq, records, recordSeq, atStart, now, calls>>

\* ------------------------------------------------------------ the users
Roles == {"admin", "employee"}

Signup(email, password, name, role) ==
    /\ userSeq < Cardinality(DOMAIN StoredUsers) + MaxSignups
    /\ IF role \in Roles /\ \A id \in DOMAIN users : users[id].email # email
       THEN /\ users' = users @@ (userSeq + 1 :>
                           [email |-> email, password |-> password,
                            role |-> role, name |-> name])
            /\ userSeq' = userSeq + 1
            /\ res' = [op |-> "POST /api/signup", status |-> 200, id |-> userSeq + 1]
       ELSE /\ res' = [op |-> "POST /api/signup", status |-> 400, id |-> 0]
            /\ UNCHANGED <<users, userSeq>>
    /\ UNCHANGED <<app, apiKey, foreignKeys, records, recordSeq, atStart, now, calls>>

\* PutProfile that carries the new name into the user's records
PutProfileRenamingRecords(id, email, name, password) ==
    /\ users' = IF id \in DOMAIN users
                THEN [users EXCEPT ![id].email = email, ![id].name = name]
                ELSE users
    /\ records' = [i \in 1..Len(records) |->
                     IF records[i].user_id = Num(id)
                     THEN [records[i] EXCEPT !.employee_name = name]
                     ELSE records[i]]
    /\ res' = [op |-> "PUT /api/profile", status |-> 200, id |-> id]
    /\ UNCHANGED <<app, apiKey, foreignKeys, userSeq, recordSeq, atStart, now, calls>>

\* password = "" stands for a request without a password
PutProfile(id, email, name, password) ==
    /\ IF id \in DOMAIN users /\ \E j \in DOMAIN users : j # id /\ users[j].email = email
       THEN /\ res' = [op |-> "PUT /api/profile", status |-> 400, id |-> 0]
            /\ UNCHANGED users
       ELSE /\ users' = IF id \in DOMAIN users
                        THEN [users EXCEPT ![id].email = email, ![id].name = name,
                                  ![id].password = IF password # "" THEN password ELSE @]
                        ELSE users
            /\ res' = [op |-> "PUT /api/profile", status |-> 200,
                       id |-> IF id \in DOMAIN users THEN id ELSE 0]
    /\ UNCHANGED <<app, apiKey, foreignKeys, userSeq, records, recordSeq, atStart, now, calls>>

\* with foreign keys enforced the DELETE of a user that records refer to throws
DeleteUser(id) ==
    /\ IF foreignKeys /\ \E i \in 1..Len(records) : UserIdEquals(records[i].user_id, Num(id))
       THEN /\ res' = [op |-> "DELETE /api/users", status |-> 500, id |-> id]
            /\ UNCHANGED users
       ELSE /\ users' = [j \in DOMAIN users \ {id} |-> users[j]]
            /\ res' = [op |-> "DELETE /api/users", status |-> 200, id |-> id]
    /\ UNCHANGED <<app, apiKey, foreignKeys, userSeq, records, recordSeq, atStart, now, calls>>

\* ------------------------------------------------------------ the clock
Tick ==
    /\ now < StartClock + MaxTicks
    /\ now' = now + 1
    /\ UNCHANGED <<app, apiKey, foreignKeys, users, userSeq, records, recordSeq, atStart, calls, res>>

\* ------------------------------------------------------------ inputs
ListQueries == {<<Num(2), "employee">>, <<Num(2), "admin">>}

LoginInputs == {<<"ana@goitom.com", "admin123">>}

SignupInputs == {<<"ana@goitom.com", "admin123", "Bia", "employee">>}

ProfileInputs == {<<2, "admin@goitom.com", "Ana", "">>}

DeleteInputs == {4}

Step(bodies, replies, queries, logins, signups, profiles, deletes) ==
    \/ \E c \in Calls, body \in bodies : PostRecords(c, body)
    \/ \E c \in Calls, text \in replies : AiResolve(c, text)
    \/ \E c \in Calls : AiReject(c)
    \/ \E q \in queries : GetRecordsRoute(q[1], q[2])
    \/ GetStats
    \/ \E l \in logins : Login(l[1], l[2])
    \/ \E u \in signups : Signup(u[1], u[2], u[3], u[4])
    \/ \E u \in profiles : PutProfile(u[1], u[2], u[3], u[4])
    \/ \E id \in deletes : DeleteUser(id)
    \/ Tick

Init == Start({<<>>, StoredRecords}, {TRUE})

Next == Step(Bodies, Replies, ListQueries, LoginInputs, SignupInputs, ProfileInputs,
             DeleteInputs)

Spec == Init /\ [][Next]_vars

\* the same server with the requests to the user routes varied, on either
\* build of SQLite, and one kind of submission
UserLogins == {<<"ana@goitom.com", "admin123">>, <<"ana@goitom.com", "wrong">>}

UserSignups == {<<"new@goitom.com", "admin123", "Bia", "employee">>,
                <<"ana@goitom.com", "admin123", "Bia", "employee">>,
                <<"boss@goitom.com", "admin123", "Bia", "owner">>}

UserProfiles == {<<2, "ana@goitom.com", "Bia", "">>,
                 <<2, "ana@goitom.com", "Ana", "secret">>,
                 <<2, "admin@goitom.com", "Ana", "">>}

UserDeletes == {2, 3}

InitUsers == Start({<<>>, StoredRecords}, BOOLEAN)

NextUsers == Step({BodyAnaCash}, {ReplyLoaves}, {<<Num(2), "employee">>}, UserLogins,
                  UserSignups, UserProfiles, UserDeletes)

SpecUsers == InitUsers /\ [][NextUsers]_vars

\* the same server with the cashAmount of the submissions varied
BodyCashNull == [BodyAnaCash EXCEPT !.cashAmount = Null]
BodyCashText == [BodyAnaCash EXCEPT !.cashAmount = Text]
BodyCashTrue == [BodyAnaCash EXCEPT !.cashAmount = True]
BodyCashNegative == [BodyAnaCash EXCEPT !.cashAmount = Num(0 - 5)]

CashBodies == {BodyAnaCash, BodyAnaNoCash, BodyCashNull, BodyCashText, BodyCashTrue,
               BodyCashNegative}

CashReplies == {ReplyLoaves}

InitCash == Start({<<>>, StoredRecords}, {TRUE})

NextCash == Step(CashBodies, CashReplies, {<<Num(2), "employee">>}, LoginInputs,
                 SignupInputs, ProfileInputs, DeleteInputs)

SpecCash == InitCash /\ [][NextCash]_vars

\* the same server with submissions that lack the user or the image
BodyNullUser == [BodyAnaCash EXCEPT !.userId = Null]
BodyEmptyImage == [BodyAnaCash EXCEPT !.imageBase64 = <<>>]

AbsentBodies == {BodyNoUser, BodyNullUser, BodyNoImage, BodyEmptyImage}

InitAbsent == Start({<<>>, StoredRecords}, {TRUE})

NextAbsent == Step(AbsentBodies, {ReplyLoaves}, {<<Num(2), "employee">>}, LoginInputs,
                   SignupInputs, ProfileInputs, DeleteInputs)

SpecAbsent == InitAbsent /\ [][NextAbsent]_vars

\* the same server with the replies of the vision service varied: every
\* text of up to MaxReplyLen characters over ReplyAlphabet
ReplyAlphabet == {"0", "4", " ", "a"}

ShortReplies ==
    UNION {[1..n -> ReplyAlphabet] : n \in 0..MaxReplyLen}
        \cup {NoString, ReplyLoaves, ReplyBetween}

InitReply == Start({<<>>}, {TRUE})

NextReply == Step({BodyAnaCash}, ShortReplies, {<<Num(2), "employee">>}, LoginInputs,
                  SignupInputs, ProfileInputs, DeleteInputs)

SpecReply == InitReply /\ [][NextReply]_vars

\* the same server with submissions of two employees in flight at once
BodyBia == [userId |-> Num(3), employeeName |-> "Bia", providerName |-> "Joao",
            imageBase64 |-> ImageB, cashAmount |-> Num(20)]

ConcurrentBodies == {BodyAnaCash, BodyBia}

ConcurrentReplies == {ReplyLoaves, ReplyBetween}

InitConcurrent == Start({<<>>}, {TRUE})

NextConcurrent == Step(ConcurrentBodies, ConcurrentReplies, {<<Num(2), "employee">>},
                       LoginInputs, SignupInputs, ProfileInputs, DeleteInputs)

SpecConcurrent == InitConcurrent /\ [][NextConcurrent]_vars

\* the same server with submissions of two employees that carry cash, on a
\* store that holds records of both
BodyBiaCash == [BodyBia EXCEPT !.cashAmount = Num(1500)]

RollupBodies == {BodyAnaCash, BodyBiaCash}

InitRollup == Start({<<>>, StoredRecords}, {TRUE})

NextRollup == Step(RollupBodies, {ReplyLoaves}, {<<Num(2), "employee">>}, LoginInputs,
                   SignupInputs, ProfileInputs, DeleteInputs)

SpecRollup == InitRollup /\ [][NextRollup]_vars

\* ------------------------------------------------- the client (App.tsx)
\* Each handler runs up to its first await in one step; what follows an
\* await (the fetch answered, the permission decided, the timer due) is a
\* step of its own, taken whenever the browser delivers it.
server == <<apiKey, foreignKeys, users, userSeq, records, recordSeq, atStart, now,
            calls, res>>

AuthViews == {"login", "signup"}

\* the views with a button back to the dashboard
SubViews == {"camera", "history", "admin-users", "admin-stats", "profile"}

\* the users whose credentials the person at the client knows
ClientUsers == {1, 2}

IsAdmin(user) == user # NoUser /\ StoredUsers[user].role = "admin"

\* line 349: the link under the form
ToggleAuth ==
    /\ app.view \in AuthViews
    /\ app' = [app EXCEPT !.view = IF app.view = "login" THEN "signup" ELSE "login"]
    /\ UNCHANGED server

\* lines 106-111: the form is submitted in view login
HandleLogin ==
    /\ app.view = "login" /\ ~app.loading /\ app.login = "idle"
    /\ app' = [app EXCEPT !.loading = TRUE, !.login = "sent"]
    /\ UNCHANGED server

\* lines 116-128: the login fetch is answered
LoginDone(ok, id) ==
    /\ app.login = "sent"
    /\ app' = IF ok
              THEN [app EXCEPT !.user = id, !.view = "dashboard", !.loading = FALSE,
                               !.login = "idle"]
              ELSE [app EXCEPT !.loading = FALSE, !.login = "idle"]
    /\ UNCHANGED server

\* lines 130-135: the form is submitted in view signup
HandleSignup ==
    /\ app.view = "signup" /\ ~app.loading /\ app.signup = "idle"
    /\ app' = [app EXCEPT !.loading = TRUE, !.signup = "sent"]
    /\ UNCHANGED server

\* lines 140-151: the signup fetch is answered
SignupDone(ok) ==
    /\ app.signup = "sent"
    /\ app' = IF ok
              THEN [app EXCEPT !.view = "login", !.loading = FALSE, !.signup = "idle"]
              ELSE [app EXCEPT !.loading = FALSE, !.signup = "idle"]
    /\ UNCHANGED server

\* the buttons of the dashboard that change the view (lines 371-388, 410,
\* 424, 434, 451) and the back buttons of the other views (485, 576, ...)
Navigate(to) ==
    /\ \/ /\ app.view = "dashboard"
          /\ to \in {"profile", "history"}
                \cup (IF IsAdmin(app.user) THEN {"admin-users", "admin-stats"} ELSE {})
       \/ /\ app.view \in SubViews
          /\ to = "dashboard"
    /\ app' = [app EXCEPT !.view = to]
    /\ UNCHANGED server

\* lines 154-158: up to the await of getUserMedia
StartCamera ==
    /\ app.view = "dashboard" /\ app.camera = "idle"
    /\ app' = [app EXCEPT !.view = "camera", !.capturedImage = FALSE, !.camera = "asking"]
    /\ UNCHANGED server

\* lines 159-161: the permission is granted
CameraGranted ==
    /\ app.camera = "asking"
    /\ app' = [app EXCEPT !.camera = "idle"]
    /\ UNCHANGED server

\* lines 162-165: the permission is denied
CameraDenied ==
    /\ app.camera = "asking"
    /\ app' = [app EXCEPT !.view = "dashboard", !.camera = "idle"]
    /\ UNCHANGED server

\* lines 169-184: the shutter button, rendered while no image is captured
CapturePhoto ==
    /\ app.view = "camera" /\ ~app.capturedImage
    /\ app' = [app EXCEPT !.capturedImage = TRUE]
    /\ UNCHANGED server

\* line 553: Repetir
Retake ==
    /\ app.view = "camera" /\ app.capturedImage
    /\ app' = [app EXCEPT !.capturedImage = FALSE]
    /\ UNCHANGED server

\* lines 186-200: Publicar, enabled while not loading, with a provider typed
HandlePublish ==
    /\ app.view = "camera" /\ app.capturedImage /\ ~app.loading /\ app.publish = "idle"
    /\ app' = IF app.user = NoUser THEN app
              ELSE [app EXCEPT !.loading = TRUE, !.publish = "sent"]
    /\ UNCHANGED server

\* lines 201-218: the publish fetch is answered; on success the 2-second
\* timer starts
PublishDone(ok) ==
    /\ app.publish = "sent"
    /\ ok => app.timers < MaxTimers
    /\ app' = [app EXCEPT !.loading = FALSE, !.publish = "idle",
                          !.timers = IF ok THEN @ + 1 ELSE @]
    /\ UNCHANGED server

\* lines 205-210: the timer is due
TimerFires ==
    /\ app.timers > 0
    /\ app' = [app EXCEPT !.view = "dashboard", !.timers = @ - 1]
    /\ UNCHANGED server

\* lines 221-236: the profile form is submitted
HandleUpdateProfile ==
    /\ app.view = "profile" /\ ~app.loading /\ app.profile = NoUser
    /\ app' = IF app.user = NoUser THEN app
              ELSE [app EXCEPT !.loading = TRUE, !.profile = app.user]
    /\ UNCHANGED server

\* lines 237-250: the profile fetch is answered with the updated user
ProfileDone(ok) ==
    /\ app.profile # NoUser
    /\ app' = IF ok
              THEN [app EXCEPT !.user = app.profile, !.loading = FALSE, !.profile = NoUser]
              ELSE [app EXCEPT !.loading = FALSE, !.profile = NoUser]
    /\ UNCHANGED server

\* lines 262-267: the button in the header of the dashboard
Logout ==
    /\ app.view = "dashboard"
    /\ app' = [app EXCEPT !.user = NoUser, !.view = "login"]
    /\ UNCHANGED server

InitClient == Start({<<>>}, {TRUE})

NextClient ==
    \/ ToggleAuth
    \/ HandleLogin
    \/ \E ok \in BOOLEAN, id \in ClientUsers : LoginDone(ok, id)
    \/ HandleSignup
    \/ \E ok \in BOOLEAN : SignupDone(ok)
    \/ \E to \in SubViews \cup {"dashboard"} : Navigate(to)
    \/ StartCamera
    \/ CameraGranted
    \/ CameraDenied
    \/ CapturePhoto
    \/ Retake
    \/ HandlePublish
    \/ \E ok \in BOOLEAN : PublishDone(ok)
    \/ TimerFires
    \/ HandleUpdateProfile
    \/ \E ok \in BOOLEAN : ProfileDone(ok)
    \/ Logout

SpecClient == InitClient /\ [][NextClient]_vars

\* ================================================================ claims
PostOp == "POST /api/records"

Ids(rows) == {rows[i].id : i \in 1..Len(rows)}

\* the handler of call c answers in this step
Answers(c) == calls[c].pc = "await" /\ calls'[c].pc = "idle"

\* C1: every createRecord call that answers with success appends exactly one
\* record, under an id no earlier record has and which the answer names (so n
\* successes leave n records with n ids, the same body or not); the appended
\* row's bread_count and the breadCount of the answer are both the count
\* extracted from the reply that call received.
OneRecordPerSuccess ==
    [][\A c \in Calls :
          Answers(c) /\ res'.op = PostOp /\ res'.status = 200 =>
              /\ Len(records') = Len(records) + 1
              /\ SubSeq(records', 1, Len(records)) = records
              /\ LET r == records'[Len(records')]
                 IN  /\ r.id \notin Ids(records)
                     /\ r.id = res'.id
                     /\ r.bread_count = res'.breadCount
                     /\ r.bread_count = BreadCount(res'.response)
                     /\ r.image_url = calls[c].body.imageBase64
                     /\ r.employee_name = calls[c].body.employeeName]_vars

\* two successful calls with the same image and metadata left two records
SameBodyTwice ==
    /\ atStart = 0 /\ Len(records) = 2
    /\ records[1].id # records[2].id
    /\ records[1].image_url = records[2].image_url
    /\ records[1].user_id = records[2].user_id
    /\ records[1].cash_amount = records[2].cash_amount
    /\ records[1].provider_name = records[2].provider_name
    /\ res.op = PostOp /\ res.status = 200 /\ res.id = 2

\* C2: a createRecord call that answers with an error, on whichever path,
\* leaves the records table as it was.
NoWriteOnFailure ==
    [][res'.op = PostOp /\ res'.status # 200 /\ (res' # res \/ calls' # calls) =>
          records' = records /\ recordSeq' = recordSeq]_vars

\* a call failed after the service was called, next to records of earlier calls
FailedNextToRecords ==
    /\ res.op = PostOp /\ res.status = 500 /\ res.error = ProcessError
    /\ Len(records) > atStart
    /\ \A c \in Calls : calls[c].pc = "idle"

\* C3: without the key every createRecord call answers with the configuration
\* error, which is not the processing error; no request to the vision service
\* is ever in flight and the table keeps the records it started with.
NoKeyNoCallNoWrite ==
    ~apiKey =>
        /\ \A c \in Calls : calls[c].pc = "idle"
        /\ Len(records) = atStart /\ recordSeq = atStart
        /\ res.op = PostOp =>
              res.status = 500 /\ res.error = ConfigError /\ res.error # ProcessError

\* a call was made without the key, on a store that holds records
NoKeyCallAnswered ==
    ~apiKey /\ res.op = PostOp /\ atStart > 0

\* C4: every record's bread_count is at least 0.
BreadCountNonNegative ==
    \A i \in 1..Len(records) : records[i].bread_count >= 0

\* a record was made from a reply with a minus sign, another from an empty one
SignedAndEmptyReplies ==
    /\ Len(records) = atStart + 2
    /\ records[atStart + 1].bread_count = 0
    /\ res.op = PostOp /\ res.status = 200 /\ res.response = ReplyMinus
    /\ records[Len(records)].bread_count = 3

\* ------------------------------------------------------- listings, rollups
\* employee ids a caller may ask for
AskedIds == {Num(2), Num(3), Num(4)}

\* C5: the listing of a non-privileged caller holds each record of the asked
\* employee once and no other record; the privileged listing holds every
\* record once, the records of each per-employee listing among them.
ListingsHoldTheRightRecords ==
    /\ \A u \in AskedIds :
          LET own == GetRecords(records, u, "employee")
          IN  /\ SeqRange(own) = {records[i] : i \in {j \in 1..Len(records) :
                                                      records[j].user_id = u}}
              /\ Len(own) = Cardinality(SeqRange(own))
              /\ SeqRange(own) \subseteq SeqRange(GetRecords(records, u, "admin"))
    /\ \A u \in AskedIds :
          LET all == GetRecords(records, u, "admin")
          IN  SeqRange(all) = SeqRange(records) /\ Len(all) = Len(records)

\* an employee was sent a listing that holds some of the records, not all
OwnListingSent ==
    /\ res.op = "GET /api/records"
    /\ res.rows = GetRecords(records, Num(2), "employee")
    /\ Len(res.rows) > 0 /\ Len(res.rows) < Len(records)
    /\ Len(records) > atStart

Listings == {SelectAll(records)} \cup {SelectForUser(records, u) : u \in AskedIds}

\* C6: both listings are ordered newest first, and records of one timestamp
\* come in the order of their ids, the same at every listing of a store.
ListingsNewestFirst ==
    \A rows \in Listings : \A i, j \in 1..Len(rows) :
        i < j => /\ ~TsLess(rows[i].timestamp, rows[j].timestamp)
                 /\ rows[i].timestamp = rows[j].timestamp => rows[i].id < rows[j].id

\* a listing was sent that holds two records of one timestamp and an older one
TiedListingSent ==
    /\ res.op = "GET /api/records"
    /\ res.rows = GetRecords(records, Num(2), "employee")
    /\ \E i, j, k \in 1..Len(res.rows) :
          /\ i < j /\ j < k
          /\ res.rows[i].timestamp = res.rows[j].timestamp
          /\ TsLess(res.rows[k].timestamp, res.rows[j].timestamp)

RECURSIVE SumBread(_)
SumBread(rows) == IF rows = <<>> THEN 0 ELSE Head(rows).bread_count + SumBread(Tail(rows))

\* the sum of the cash amounts as REAL numbers add, in the order of the rows
RECURSIVE SumCash(_, _)
SumCash(rows, acc) ==
    IF rows = <<>> THEN acc ELSE SumCash(Tail(rows), RealAdd(acc, Head(rows).cash_amount.v))

Dates(rows) == {DateOf(rows[i].timestamp) : i \in 1..Len(rows)}

OnDate(rows, d) == SelectSeq(rows, LAMBDA r : DateOf(r.timestamp) = d)

\* C7: totalByDay has at most 7 rows, one for each of the 7 most recent dates
\* that have a record, newest date first; a row's totals are the sums of
\* bread_count and of cash_amount over the records of its date; no other date
\* has a row and an empty table gives no rows.
DailyTotalsRight ==
    LET t == TotalByDay(records)
        recent == {d \in Dates(records) :
                      Cardinality({e \in Dates(records) : e > d}) < StatsDays}
    IN  /\ Len(t) <= 7
        /\ Len(t) = Cardinality(recent)
        /\ {t[i].date : i \in 1..Len(t)} = recent
        /\ \A i, j \in 1..Len(t) : i < j => t[i].date > t[j].date
        /\ \A i \in 1..Len(t) :
              /\ t[i].total = SumBread(OnDate(records, t[i].date))
              /\ t[i].total_cash = SumCash(OnDate(records, t[i].date), 0)
        /\ records = <<>> => t = <<>>

\* statistics were sent for a table with records on more than 7 dates, two
\* of them on the newest date
EighthDateSent ==
    /\ Cardinality(Dates(records)) > StatsDays
    /\ res.op = "GET /api/stats"
    /\ res.totalByDay = TotalByDay(records)
    /\ Len(res.totalByDay) = StatsDays
    /\ Len(OnDate(records, res.totalByDay[1].date)) = 2

Names(rows) == {rows[i].employee_name : i \in 1..Len(rows)}

Named(rows, name) == SelectSeq(rows, LAMBDA r : r.employee_name = name)

\* the table after reply "3 loaves" with cash 1500, then reply "", for Ana
AnaScenario ==
    /\ atStart = 0 /\ Len(records) = 2
    /\ records[1].employee_name = "Ana" /\ records[2].employee_name = "Ana"
    /\ records[1].bread_count = BreadCount(ReplyLoaves)
    /\ records[1].cash_amount = Num(1500)
    /\ records[2].cash_amount = Num(0)
    /\ res.op = PostOp /\ res.status = 200 /\ res.id = 2
    /\ res.response = ReplyEmpty

\* C8: totalByEmployee has one row for each employee_name that a record
\* carries and no other; a row's totals are the sums of bread_count and of
\* cash_amount over all records of that name; rows come by total descending;
\* after "3 loaves" with 1500 and then "" for Ana, Ana's row is 3 and 1500.
EmployeeTotalsRight ==
    LET t == TotalByEmployee(records)
    IN  /\ Len(t) = Cardinality(Names(records))
        /\ {t[i].employee_name : i \in 1..Len(t)} = Names(records)
        /\ \A i \in 1..Len(t) :
              /\ t[i].total = SumBread(Named(records, t[i].employee_name))
              /\ t[i].total_cash = SumCash(Named(records, t[i].employee_name), 0)
        /\ \A i, j \in 1..Len(t) : i < j => t[i].total >= t[j].total
        /\ AnaScenario =>
              t = <<[employee_name |-> "Ana", total |-> 3, total_cash |-> 1500]>>

\* the scenario has run and the statistics for it were computed
AnaScenarioRun ==
    AnaScenario /\ Len(TotalByEmployee(records)) = 1

\* the rows with two submissions exchanged in the order of insertion: each
\* takes the id and the timestamp the other had
Exchanged(rows, i, j) ==
    [k \in 1..Len(rows) |->
        LET from == IF k = i THEN j ELSE IF k = j THEN i ELSE k
        IN  [rows[from] EXCEPT !.id = rows[k].id, !.timestamp = rows[k].timestamp]]

\* C9: the sums totalByEmployee gives for each employee are the same in
\* whatever order the same submissions are inserted: exchanging any two of
\* them (every order is a chain of exchanges) changes no row.
EmployeeSumsOrderFree ==
    \A i, j \in 1..Len(records) :
        i < j => SeqRange(TotalByEmployee(Exchanged(records, i, j)))
                    = SeqRange(TotalByEmployee(records))

\* C10: no step of the server changes or removes a record that exists: the
\* table keeps every row, field by field, and only grows at its end.
RecordsNeverChange ==
    [][/\ Len(records') >= Len(records)
       /\ SubSeq(records', 1, Len(records)) = records]_vars

\* the user of a record was deleted (a build without foreign keys) and the record still
\* carries the name it was submitted under
SubmitterDeleted ==
    /\ 2 \notin DOMAIN users
    /\ res.op = "DELETE /api/users" /\ res.status = 200 /\ res.id = 2
    /\ Len(records) > atStart
    /\ records[Len(records)].user_id = Num(2)
    /\ records[Len(records)].employee_name = "Ana"

\* the user of a record was renamed
SubmitterRenamed ==
    /\ 2 \in DOMAIN users /\ users[2].name = "Bia"
    /\ res.op = "PUT /api/profile" /\ res.status = 200
    /\ Len(records) > atStart
    /\ records[Len(records)].user_id = Num(2)
    /\ records[Len(records)].employee_name = "Ana"

\* C11: whenever the handler of a submission resumes with a reply, a
\* cashAmount that is malformed does not make it fail (the user being one
\* the table accepts), and the row it stores carries cash 0 when the
\* cashAmount was absent or no number, and the number sent otherwise.
CashDefaultsToZero ==
    [][\A c \in Calls, text \in CashReplies :
          LET body == calls[c].body
          IN  (/\ calls[c].pc = "await"
               /\ AiResolve(c, text)
               /\ Bindable(body.userId) /\ ForeignKeyOk(body.userId))
              => /\ res'.status = 200
                 /\ Len(records') = Len(records) + 1
                 /\ records'[Len(records')].cash_amount
                      = IF body.cashAmount.t = "number" THEN body.cashAmount ELSE Num(0)]_vars

\* C12: no record of the store has a cash amount below zero, whatever
\* cashAmount the submissions carried.
CashNonNegative ==
    \A i \in 1..Len(records) :
        records[i].cash_amount.t = "number" => records[i].cash_amount.v >= 0

\* C13: every record of the store has a user id that is there and not null
\* and an image that is not empty, so a submission without a user or without
\* an image has created none.
RecordsHaveUserAndImage ==
    \A i \in 1..Len(records) :
        /\ records[i].user_id.t = "number"
        /\ records[i].image_url # NoString
        /\ records[i].image_url # <<>>

\* the digits of a text, in the order they stand in it
DigitsOf(text) == SelectSeq(text, LAMBDA ch : ch \in Digits)

\* the number a string of digits writes in base 10, 0 for no digit
RECURSIVE Base10(_)
Base10(ds) ==
    IF ds = <<>> THEN 0
    ELSE 10 * Base10(SubSeq(ds, 1, Len(ds) - 1)) + DigitVal(ds[Len(ds)])

ExtractedCount(text) == IF text = NoString THEN 0 ELSE Base10(DigitsOf(text))

\* C14: the count a submission is answered and stored with is the number
\* written by the digits of the reply with every other character deleted,
\* 0 when no digit remains or the reply has no text; "between 4 and 5"
\* gives 45 and "3 loaves" gives 3.
CountIsDigitsOfReply ==
    (res.op = PostOp /\ res.status = 200)
    => /\ res.breadCount = ExtractedCount(res.response)
       /\ records[Len(records)].bread_count = ExtractedCount(res.response)
       /\ res.response = ReplyBetween => res.breadCount = 45
       /\ res.response = ReplyLoaves => res.breadCount = 3

\* a reply with two numbers in it was answered with the digits of both
TwoNumbersRunTogether ==
    /\ res.op = PostOp /\ res.status = 200
    /\ res.response = ReplyBetween
    /\ res.breadCount = 45

\* no handler has sent a second request, a handler that answers after its
\* request has sent one, and the table changes only by the row of a handler
\* whose request was answered, in the step in which it answers 200
OneCallThenRecord ==
    /\ \A c \in Calls :
          /\ calls'[c].sent <= 1
          /\ (calls[c].pc = "await" /\ calls'[c].pc = "idle")
             => calls[c].sent = 1 /\ res'.op = PostOp
    /\ records' # records
       => \E c \in Calls :
             /\ calls[c].pc = "await" /\ calls[c].sent = 1 /\ calls'[c].pc = "idle"
             /\ res'.op = PostOp /\ res'.status = 200
             /\ Len(records') = Len(records) + 1
             /\ SubSeq(records', 1, Len(records)) = records
             /\ records'[Len(records')].user_id = calls[c].body.userId
             /\ records'[Len(records')].image_url = calls[c].body.imageBase64

\* C15 as claimed: every submission arriving with the key configured sends
\* exactly one request to the vision service, none sends a second, and a
\* record is written only by a handler whose request was answered.
ExactlyOneCallPerAttempt ==
    [][/\ \A c \in Calls, body \in Bodies :
             (apiKey /\ PostRecords(c, body)) => calls'[c].sent = 1
       /\ OneCallThenRecord]_vars

\* C15: a submission arriving with the key configured and an image in its
\* body sends exactly one request to the vision service, any other sends
\* none; no handler sends a second, and a record is written only by a
\* handler whose request was answered.
OneCallPerAttemptWithImage ==
    [][/\ \A c \in Calls, body \in Bodies :
             PostRecords(c, body)
             => calls'[c].sent = IF apiKey /\ body.imageBase64 # NoString THEN 1 ELSE 0
       /\ OneCallThenRecord]_vars

\* one handler has answered 200 with its record stored while another has
\* its request in flight
AnsweredNextToRequest ==
    /\ res.op = PostOp /\ res.status = 200
    /\ Len(records) = atStart + 1
    /\ \E c \in Calls : calls[c].pc = "await" /\ calls[c].sent = 1

\* ids grow along the table, and timestamps never fall along it
IdsAndTimesInOrder(rows) ==
    \A i, j \in 1..Len(rows) :
        i < j => /\ rows[i].id < rows[j].id
                 /\ ~TsLess(rows[j].timestamp, rows[i].timestamp)

\* C16: record ids are unique and grow in insertion order, a record's
\* timestamp is the reading of the server's clock in the step that inserts
\* it, and of two records the one with the lower id has the timestamp that
\* is not the later one.
IdsAndTimesFollowInsertion ==
    /\ IdsAndTimesInOrder(records)
    /\ [][/\ IdsAndTimesInOrder(records')
          /\ records' # records
             => /\ Len(records') = Len(records) + 1
                /\ records'[Len(records')].timestamp = CurrentTimestamp(now)
                /\ \A i \in 1..Len(records) :
                      records[i].id < records'[Len(records')].id]_vars

\* a record was inserted after the clock had moved on from the start
InsertedAfterTick ==
    /\ res.op = PostOp /\ res.status = 200
    /\ now > StartClock
    /\ Len(records) > atStart
    /\ records[Len(records)].timestamp = CurrentTimestamp(now)
    /\ records[Len(records)].id = res.id

\* what a record holds besides its id and its timestamp
Content(row) ==
    [user_id |-> row.user_id, employee_name |-> row.employee_name,
     provider_name |-> row.provider_name, bread_count |-> row.bread_count,
     cash_amount |-> row.cash_amount, image_url |-> row.image_url]

\* the content of the record of a submission with this body and this reply
OwnContent(body, text) ==
    [user_id |-> body.userId, employee_name |-> body.employeeName,
     provider_name |-> body.providerName, bread_count |-> ExtractedCount(text),
     cash_amount |-> body.cashAmount, image_url |-> body.imageBase64]

\* C17: with several submissions in flight, in whatever order their replies
\* arrive, the step in which one is answered 200 appends exactly one record,
\* with an id no record has, whose content is that submission's own body and
\* the count of its own reply, and leaves the other submissions as they
\* are; so the contents stored are those of the answered submissions,
\* whatever the interleaving.
CallsAreIndependent ==
    [][\A c \in Calls :
          (calls[c].pc = "await" /\ calls'[c].pc = "idle")
          => /\ \A d \in Calls \ {c} : calls'[d] = calls[d]
             /\ res'.op = PostOp
             /\ res'.status = 200
                => /\ Len(records') = Len(records) + 1
                   /\ SubSeq(records', 1, Len(records)) = records
                   /\ records'[Len(records')].id \notin Ids(records)
                   /\ Content(records'[Len(records')])
                        = OwnContent(calls[c].body, res'.response)
             /\ res'.status # 200 => records' = records]_vars

\* a submission was answered while the other employee's was in flight, whose
\* record is not yet there
AnsweredWhileOtherInFlight ==
    /\ res.op = PostOp /\ res.status = 200
    /\ Len(records) = 1
    /\ \E c \in Calls :
          /\ calls[c].pc = "await"
          /\ calls[c].body.userId # records[1].user_id
          /\ calls[c].body.employeeName # records[1].employee_name

\* C18: whatever submissions are in flight when a listing or the statistics
\* are read, the listing holds only whole records of the table as it is at
\* the read, and the statistics add up the amounts of those records alone:
\* a submission that waits for its reply gives no row and no amount.
ReadsSeeFinishedInsertsOnly ==
    /\ res.op = "GET /api/records"
       => /\ SeqRange(res.rows) \subseteq SeqRange(records)
          /\ Len(res.rows) <= Len(records)
    /\ res.op = "GET /api/stats"
       => /\ {r.employee_name : r \in SeqRange(res.totalByEmployee)} = Names(records)
          /\ \A r \in SeqRange(res.totalByEmployee) :
                /\ r.total = SumBread(Named(records, r.employee_name))
                /\ r.total_cash = SumCash(Named(records, r.employee_name), 0)
          /\ {r.date : r \in SeqRange(res.totalByDay)} \subseteq Dates(records)
          /\ \A r \in SeqRange(res.totalByDay) :
                /\ r.total = SumBread(OnDate(records, r.date))
                /\ r.total_cash = SumCash(OnDate(records, r.date), 0)

\* the statistics are read with two submissions in flight, one of them on a
\* store that is still empty
StatsReadDuringFlight ==
    /\ res.op = "GET /api/stats"
    /\ \A c \in Calls : calls[c].pc = "await"
    /\ records = <<>> /\ res.totalByEmployee = <<>> /\ res.totalByDay = <<>>

\* the sums of a rollup's columns, the cash as REAL numbers add
RECURSIVE SumTotal(_)
SumTotal(rows) == IF rows = <<>> THEN 0 ELSE Head(rows).total + SumTotal(Tail(rows))

RECURSIVE SumTotalCash(_, _)
SumTotalCash(rows, acc) ==
    IF rows = <<>> THEN acc ELSE SumTotalCash(Tail(rows), RealAdd(acc, Head(rows).total_cash))

\* C19: the totals of totalByEmployee add up to the bread of all records and
\* its cash totals to the cash of all records; the totals of totalByDay add
\* up to the same bread when the records span at most 7 dates, and to no
\* more than it otherwise.
RollupsAddUpToTheStore ==
    /\ SumTotal(TotalByEmployee(records)) = SumBread(records)
    /\ SumTotalCash(TotalByEmployee(records), 0) = SumCash(records, 0)
    /\ Cardinality(Dates(records)) <= StatsDays
       => SumTotal(TotalByDay(records)) = SumBread(records)
    /\ SumTotal(TotalByDay(records)) <= SumBread(records)

\* C20: in the client, whatever callbacks are pending, a view other than
\* login and signup is shown only with a user logged in.
ViewNeedsUser ==
    app.view \notin AuthViews => app.user # NoUser

====
